---- MODULE Spec2Model ----
(***************************************************************************)
(* Model of APIStressTest (src/api_stresstest.py): the batch dispatcher    *)
(* run(), the per-request coroutine make_request() and the summary         *)
(* show_results().  asyncio is single-threaded and cooperative: a          *)
(* coroutine is only suspended at an await, so everything make_request     *)
(* does after its last await (lines 46-55, or the except handler 57-61)    *)
(* is one atomic step.                                                     *)
(***************************************************************************)
EXTENDS Integers, Sequences, FiniteSets

\* ---- bounds of the model ----
MaxN == 3
MaxElapsed == 1
MaxLen == 120

\* ---- inputs ----
Supported == {"GET", "POST", "PUT", "DELETE"}
\* one supported method and one unsupported one: the four supported branches
\* of make_request differ only in the request they send
Methods == {"GET", "PATCH"}
StatusCodes == {199, 200, 299, 300}
Elapsed == 0..MaxElapsed
NoStatus == 0
Raised == -1

VARIABLES method, num_requests, concurrency,
          results, failed_requests, successful_requests,
          pc, tasks, status, i, batch, report

vars == <<method, num_requests, concurrency, results, failed_requests,
          successful_requests, pc, tasks, status, i, batch, report>>

config == <<method, num_requests, concurrency>>
aggregate == <<results, failed_requests, successful_requests>>

\* ---- helpers ----
Min2(a, b) == IF a <= b THEN a ELSE b

RECURSIVE Sum(_)
Sum(s) == IF s = <<>> THEN 0 ELSE Head(s) + Sum(Tail(s))

RECURSIVE Insert(_, _)
Insert(x, s) == IF s = <<>> THEN <<x>>
                ELSE IF x <= Head(s) THEN <<x>> \o s
                ELSE <<Head(s)>> \o Insert(x, Tail(s))

RECURSIVE sorted(_)
sorted(s) == IF s = <<>> THEN <<>> ELSE Insert(Head(s), sorted(Tail(s)))

Is2xxInclusive(st) == 200 <= st /\ st <= 300

Is2xx(st) == 200 <= st /\ st < 300

BatchSliceOneMore(lo) == (lo + 1)..Min2(lo + concurrency + 1, Len(tasks))

\* tasks[i:i+concurrency], as 1-based request ids
BatchSlice(lo) == (lo + 1)..Min2(lo + concurrency, Len(tasks))

Terminal == {"Success", "Failure", "Skipped"}

GatherFirstCompleted == \E k \in batch : tasks[k] \in Terminal

\* asyncio.gather(*batch) resumes run() once every awaitable has finished
GatherFinished == \A k \in batch : tasks[k] \in Terminal

\* ---- construction ----
Init ==
    /\ method \in Methods
    /\ num_requests \in 1..MaxN
    /\ concurrency \in 1..MaxN
    /\ results = <<>>
    /\ failed_requests = 0
    /\ successful_requests = 0
    /\ pc = "init"
    /\ tasks = <<>>
    /\ status = <<>>
    /\ i = 0
    /\ batch = {}
    /\ report = [kind |-> "none"]

\* ---- run(): lines 63-76, the coroutine objects are created, none started ----
CreateTasks ==
    /\ pc = "init"
    /\ tasks' = [k \in 1..num_requests |-> "Pending"]
    /\ status' = [k \in 1..num_requests |-> NoStatus]
    /\ i' = 0
    /\ pc' = "loop"
    /\ UNCHANGED <<config, aggregate, batch, report>>

\* ---- run(): lines 79-81, next slice handed to gather ----
GatherBatch ==
    /\ pc = "loop"
    /\ i < Len(tasks)
    /\ batch' = BatchSlice(i)
    /\ pc' = "gather"
    /\ UNCHANGED <<config, aggregate, tasks, status, i, report>>

GatherReturnNoAdvance ==
    /\ pc = "gather"
    /\ GatherFinished
    /\ batch' = {}
    /\ pc' = "loop"
    /\ UNCHANGED <<config, aggregate, tasks, status, i, report>>

\* ---- run(): line 81 returns, loop variable advances by concurrency ----
GatherReturn ==
    /\ pc = "gather"
    /\ GatherFinished
    /\ i' = i + concurrency
    /\ batch' = {}
    /\ pc' = "loop"
    /\ UNCHANGED <<config, aggregate, tasks, status, report>>

\* ---- run(): range exhausted, session closed, line 83 next ----
LoopExit ==
    /\ pc = "loop"
    /\ i >= Len(tasks)
    /\ pc' = "summary"
    /\ UNCHANGED <<config, aggregate, tasks, status, i, batch, report>>

\* ---- make_request: lines 24-41, request issued, suspended at the await ----
IssueRequest(k) ==
    /\ pc = "gather"
    /\ k \in batch
    /\ tasks[k] = "Pending"
    /\ method \in Supported
    /\ tasks' = [tasks EXCEPT ![k] = "InFlight"]
    /\ UNCHANGED <<config, aggregate, pc, status, i, batch, report>>

UnsupportedMethodCountsFailure(k) ==
    /\ pc = "gather"
    /\ k \in batch
    /\ tasks[k] = "Pending"
    /\ method \notin Supported
    /\ tasks' = [tasks EXCEPT ![k] = "Skipped"]
    /\ failed_requests' = failed_requests + 1
    /\ UNCHANGED <<config, results, successful_requests, pc, status, i, batch, report>>

\* ---- make_request: lines 42-44, unsupported method, prints and returns ----
UnsupportedMethod(k) ==
    /\ pc = "gather"
    /\ k \in batch
    /\ tasks[k] = "Pending"
    /\ method \notin Supported
    /\ tasks' = [tasks EXCEPT ![k] = "Skipped"]
    /\ UNCHANGED <<config, aggregate, pc, status, i, batch, report>>

RecordResponsePrepends(k, st, el) ==
    /\ tasks[k] = "InFlight"
    /\ status' = [status EXCEPT ![k] = st]
    /\ results' = <<el>> \o results
    /\ IF Is2xx(st)
         THEN /\ successful_requests' = successful_requests + 1
              /\ failed_requests' = failed_requests
              /\ tasks' = [tasks EXCEPT ![k] = "Success"]
         ELSE /\ failed_requests' = failed_requests + 1
              /\ successful_requests' = successful_requests
              /\ tasks' = [tasks EXCEPT ![k] = "Failure"]
    /\ UNCHANGED <<config, pc, i, batch, report>>

\* ---- make_request: lines 46-55, response received with status st ----
RecordResponse(k, st, el) ==
    /\ tasks[k] = "InFlight"
    /\ status' = [status EXCEPT ![k] = st]
    /\ results' = Append(results, el)
    /\ IF Is2xx(st)
         THEN /\ successful_requests' = successful_requests + 1
              /\ failed_requests' = failed_requests
              /\ tasks' = [tasks EXCEPT ![k] = "Success"]
         ELSE /\ failed_requests' = failed_requests + 1
              /\ successful_requests' = successful_requests
              /\ tasks' = [tasks EXCEPT ![k] = "Failure"]
    /\ UNCHANGED <<config, pc, i, batch, report>>

ExceptHandlerNoCount(k) ==
    /\ tasks[k] = "InFlight"
    /\ status' = [status EXCEPT ![k] = Raised]
    /\ tasks' = [tasks EXCEPT ![k] = "Failure"]
    /\ UNCHANGED <<config, aggregate, pc, i, batch, report>>

ExceptHandlerRecordsElapsed(k) ==
    /\ tasks[k] = "InFlight"
    /\ status' = [status EXCEPT ![k] = Raised]
    /\ failed_requests' = failed_requests + 1
    /\ \E el \in Elapsed : results' = Append(results, el)
    /\ tasks' = [tasks EXCEPT ![k] = "Failure"]
    /\ UNCHANGED <<config, successful_requests, pc, i, batch, report>>

ExceptHandlerPropagates(k) ==
    /\ tasks[k] = "InFlight"
    /\ status' = [status EXCEPT ![k] = Raised]
    /\ failed_requests' = failed_requests + 1
    /\ tasks' = [tasks EXCEPT ![k] = "Failure"]
    /\ pc' = "aborted"
    /\ UNCHANGED <<config, results, successful_requests, i, batch, report>>

ExceptHandlerRetries(k) ==
    /\ tasks[k] = "InFlight"
    /\ failed_requests' = failed_requests + 1
    /\ tasks' = [tasks EXCEPT ![k] = "Pending"]
    /\ UNCHANGED <<config, results, successful_requests, pc, status, i, batch, report>>

\* ---- make_request: lines 57-61, the attempt raised (connect, timeout, ...) ----
ExceptHandler(k) ==
    /\ tasks[k] = "InFlight"
    /\ status' = [status EXCEPT ![k] = Raised]
    /\ failed_requests' = failed_requests + 1
    /\ tasks' = [tasks EXCEPT ![k] = "Failure"]
    /\ UNCHANGED <<config, results, successful_requests, pc, i, batch, report>>

\* ---- show_results: lines 85-122 ----
SuccessRateOverRecorded == [num |-> successful_requests * 100, den |-> Len(results)]

\* line 96: successful_requests / num_requests * 100, kept as a fraction
SuccessRate == [num |-> successful_requests * 100, den |-> num_requests]

RECURSIVE MinTime(_)
\* line 101: min(self.results)
MinTime(s) == IF Len(s) = 1 THEN s[1]
              ELSE LET m == MinTime(Tail(s)) IN IF s[1] <= m THEN s[1] ELSE m

MaxTimeLast(s) == s[Len(s)]

RECURSIVE MaxTimeScan(_)
MaxTimeScan(s) == IF Len(s) = 1 THEN s[1]
                  ELSE LET m == MaxTimeScan(Tail(s)) IN IF s[1] >= m THEN s[1] ELSE m

\* line 102: max(self.results)
MaxTime(s) == MaxTimeScan(s)

Median2Unsorted(s) ==
    LET n == Len(s)
    IN  IF n % 2 = 1 THEN 2 * s[(n + 1) \div 2]
        ELSE s[n \div 2] + s[n \div 2 + 1]

\* line 103: statistics.median, kept as twice its value
Median2(s) ==
    LET srt == sorted(s)
        n == Len(s)
    IN  IF n % 2 = 1 THEN 2 * srt[(n + 1) \div 2]
        ELSE srt[n \div 2] + srt[n \div 2 + 1]

PercentileIndexCeil(n, p) == (n * p + 99) \div 100

\* lines 106-107: int(len(self.results) * 0.95), int(len(self.results) * 0.99)
PercentileIndex(n, p) == (n * p) \div 100

PercentileUnsorted(s, p) ==
    LET idx == PercentileIndex(Len(s), p)
    IN  IF idx < Len(s) THEN [kind |-> "value", value |-> s[idx + 1]]
        ELSE [kind |-> "N/A"]

\* lines 105-110: the lookup into the sorted copy, "N/A" on IndexError
Percentile(s, p) ==
    LET idx == PercentileIndex(Len(s), p)
    IN  IF idx < Len(s) THEN [kind |-> "value", value |-> sorted(s)[idx + 1]]
        ELSE [kind |-> "N/A"]

Summary ==
    [ kind           |-> "summary",
      total_requests |-> num_requests,
      successful     |-> successful_requests,
      failed         |-> failed_requests,
      success_rate   |-> SuccessRate,
      total_time     |-> Sum(results),
      avg_time       |-> [num |-> Sum(results), den |-> Len(results)],
      min_time       |-> MinTime(results),
      max_time       |-> MaxTime(results),
      median_time2   |-> Median2(results),
      p95            |-> Percentile(results, 95),
      p99            |-> Percentile(results, 99),
      requests_per_second |-> [num |-> successful_requests, den |-> Sum(results)] ]

ShowResultsSortsInPlace ==
    /\ pc = "summary"
    /\ results' = sorted(results)
    /\ IF results = <<>>
         THEN /\ report' = [kind |-> "No successful requests to analyze."]
              /\ pc' = "done"
         ELSE IF Sum(results) = 0
         THEN /\ report' = [kind |-> "ZeroDivisionError", success_rate |-> SuccessRate]
              /\ pc' = "raised"
         ELSE /\ report' = Summary
              /\ pc' = "done"
    /\ UNCHANGED <<config, failed_requests, successful_requests, tasks, status, i, batch>>

ShowResults ==
    /\ pc = "summary"
    /\ IF results = <<>>
         THEN /\ report' = [kind |-> "No successful requests to analyze."]
              /\ pc' = "done"
         ELSE IF Sum(results) = 0
         THEN /\ report' = [kind |-> "ZeroDivisionError", success_rate |-> SuccessRate]
              /\ pc' = "raised"
         ELSE /\ report' = Summary
              /\ pc' = "done"
    /\ UNCHANGED <<config, aggregate, tasks, status, i, batch>>

Next ==
    \/ CreateTasks
    \/ GatherBatch
    \/ GatherReturn
    \/ LoopExit
    \/ \E k \in 1..Len(tasks) : IssueRequest(k)
    \/ \E k \in 1..Len(tasks) : UnsupportedMethod(k)
    \/ \E k \in 1..Len(tasks), st \in StatusCodes, el \in Elapsed : RecordResponse(k, st, el)
    \/ \E k \in 1..Len(tasks) : ExceptHandler(k)
    \/ ShowResults

Spec == Init /\ [][Next]_vars

FairSpec == Spec /\ WF_vars(Next)

(***************************************************************************)
(* The same program at the grain of the statements of lines 46-55, used to *)
(* examine the recording step itself: the append of line 48 and the        *)
(* counter increment of lines 50-53 are separate steps, and the event loop *)
(* runs a callback up to its next await before it runs anything else.      *)
(***************************************************************************)
LoopIdleAlways == TRUE

\* no coroutine is between line 46 and line 55 (there is no await there)
LoopIdle == \A k \in 1..Len(tasks) : tasks[k] # "Recording"

\* ---- make_request: lines 46-48, elapsed computed and appended ----
AppendElapsed(k, st, el) ==
    /\ tasks[k] = "InFlight"
    /\ status' = [status EXCEPT ![k] = st]
    /\ results' = Append(results, el)
    /\ tasks' = [tasks EXCEPT ![k] = "Recording"]
    /\ UNCHANGED <<config, failed_requests, successful_requests, pc, i, batch, report>>

\* ---- make_request: lines 50-55, the counter chosen by the status ----
Classify(k) ==
    /\ tasks[k] = "Recording"
    /\ IF Is2xx(status[k])
         THEN /\ successful_requests' = successful_requests + 1
              /\ failed_requests' = failed_requests
              /\ tasks' = [tasks EXCEPT ![k] = "Success"]
         ELSE /\ failed_requests' = failed_requests + 1
              /\ successful_requests' = successful_requests
              /\ tasks' = [tasks EXCEPT ![k] = "Failure"]
    /\ UNCHANGED <<config, results, pc, status, i, batch, report>>

StepNext ==
    \/ LoopIdle /\ CreateTasks
    \/ LoopIdle /\ GatherBatch
    \/ LoopIdle /\ GatherReturn
    \/ LoopIdle /\ LoopExit
    \/ LoopIdle /\ \E k \in 1..Len(tasks) : IssueRequest(k)
    \/ LoopIdle /\ \E k \in 1..Len(tasks) : UnsupportedMethod(k)
    \/ LoopIdle /\ \E k \in 1..Len(tasks), st \in StatusCodes, el \in Elapsed : AppendElapsed(k, st, el)
    \/ \E k \in 1..Len(tasks) : Classify(k)
    \/ LoopIdle /\ \E k \in 1..Len(tasks) : ExceptHandler(k)
    \/ LoopIdle /\ ShowResults

StepSpec == Init /\ [][StepNext]_vars

\* ---- vocabulary of the properties ----
Ids == 1..Len(tasks)
Succeeded == {k \in Ids : tasks[k] = "Success"}
Failed == {k \in Ids : tasks[k] = "Failure"}
InFlight == {k \in Ids : tasks[k] = "InFlight"}
Responded == {k \in Ids : status[k] \in StatusCodes}
Responded2xx == {k \in Ids : status[k] \in 200..299}
Threw == {k \in Ids : status[k] = Raised}
ShowResultsCalled == pc \in {"done", "raised"}
AfterLoop == pc \in {"summary", "done", "raised"}
BatchNo(k) == (k - 1) \div concurrency
AllThrew == Len(tasks) = num_requests /\ Threw = Ids

\* C1: with a supported method, once the batch loop of run() has finished
\* exactly N outcomes are counted, successful_requests + failed_requests = N,
\* and in every state each counter equals the number of executions that ended
\* that way (no execution is counted twice).
C1_ExactlyNOutcomes ==
    method \in Supported =>
        /\ successful_requests = Cardinality(Succeeded)
        /\ failed_requests = Cardinality(Failed)
        /\ AfterLoop =>
              /\ successful_requests + failed_requests = num_requests
              /\ Succeeded \cup Failed = 1..num_requests

C1_Witness ==
    /\ pc = "done"
    /\ method \in Supported
    /\ num_requests = 3
    /\ concurrency = 2
    /\ Threw # {}
    /\ Responded2xx # {}
    /\ Responded \ Responded2xx # {}

C3_AtMostCInFlight ==
    Cardinality(InFlight) <= concurrency

C3_Witness ==
    /\ num_requests = 3
    /\ concurrency = 2
    /\ Cardinality(InFlight) = 2

\* C4: an execution of a later batch has left Pending only if every
\* execution of every earlier batch is terminal, and (supported method) the
\* outcomes of all earlier batches are already counted.
C4_BatchBarrier ==
    \A j \in Ids : \A k \in Ids :
        (BatchNo(j) < BatchNo(k) /\ tasks[k] # "Pending") =>
            /\ tasks[j] \in Terminal
            /\ method \in Supported =>
                  successful_requests + failed_requests >= BatchNo(k) * concurrency

C4_Witness ==
    /\ Len(tasks) = 3
    /\ concurrency = 2
    /\ tasks[1] = "Failure"
    /\ tasks[2] = "Success"
    /\ tasks[3] = "InFlight"

\* C5: under fair scheduling, once an execution has raised, every execution
\* (siblings of its batch and all later batches) still reaches a terminal
\* state and run() still calls show_results.
C5_FailureNeverAborts ==
    (Threw # {}) ~> (ShowResultsCalled /\ \A k \in 1..num_requests : tasks[k] \in Terminal)

C5_Witness ==
    /\ pc = "done"
    /\ Len(tasks) = 3
    /\ concurrency = 2
    /\ status[1] = Raised
    /\ tasks[2] = "Success"
    /\ tasks[3] = "Success"

C7_ZeroSumGuarded ==
    (ShowResultsCalled /\ Len(results) >= 1 /\ Sum(results) = 0) =>
        /\ pc = "done"
        /\ report.kind = "summary"
        /\ report.requests_per_second = "unavailable"

\* C8: with an unsupported method nothing is issued or recorded: no execution
\* is ever InFlight or completed, results and both counters keep their
\* initial values, and show_results reports "no data".
C8_UnsupportedSkipsAll ==
    method \notin Supported =>
        /\ \A k \in Ids : tasks[k] \in {"Pending", "Skipped"} /\ status[k] = NoStatus
        /\ results = <<>>
        /\ successful_requests = 0
        /\ failed_requests = 0
        /\ AfterLoop => \A k \in 1..num_requests : tasks[k] = "Skipped"
        /\ ShowResultsCalled =>
              /\ pc = "done"
              /\ report = [kind |-> "No successful requests to analyze."]

C8_Witness ==
    /\ pc = "done"
    /\ method \notin Supported
    /\ num_requests = 3
    /\ \A k \in 1..num_requests : tasks[k] = "Skipped"

\* steps of one execution
StepOK(old, new) ==
    \/ new = old
    \/ old = "Pending" /\ new = "InFlight"
    \/ old = "InFlight" /\ new \in {"Success", "Failure"}

StepOrSkipOK(old, new) ==
    \/ StepOK(old, new)
    \/ old = "Pending" /\ new = "Skipped" /\ method \notin Supported

\* C9 (as stated): every execution only ever moves Pending -> InFlight ->
\* Success or Failure, and executions exist only for sequence numbers 1..N.
C9_PendingInFlightCompletedOnly ==
    [][ /\ Len(tasks') <= num_requests
        /\ \A k \in 1..Len(tasks') :
              IF k \in Ids THEN StepOK(tasks[k], tasks'[k]) ELSE tasks'[k] = "Pending" ]_vars

\* C9 (amended): as stated for a supported method; with an unsupported method
\* an execution moves Pending -> Skipped and nothing else.  In both cases an
\* execution is started at most once and none is created beyond N.
C9_LifecycleWithSkip ==
    [][ /\ Len(tasks') <= num_requests
        /\ Len(tasks') >= Len(tasks)
        /\ \A k \in 1..Len(tasks') :
              IF k \in Ids THEN StepOrSkipOK(tasks[k], tasks'[k]) ELSE tasks'[k] = "Pending"
        /\ method \in Supported => \A k \in Ids : tasks'[k] # "Skipped" ]_vars

C9_Witness ==
    /\ pc = "gather"
    /\ method \in Supported
    /\ Len(tasks) = 3
    /\ tasks[1] = "Success"
    /\ tasks[2] = "Failure"
    /\ tasks[3] = "Pending"

\* C10: a response with status outside [200,300) appends its duration and
\* increments failed_requests only, one inside increments successful_requests
\* only; successful_requests always equals the number of 2xx responses.
C10_ClassifyByStatus ==
    /\ [] /\ successful_requests = Cardinality(Responded2xx)
          /\ failed_requests = Cardinality(Responded \ Responded2xx) + Cardinality(Threw)
          /\ \A k \in Responded : tasks[k] = IF status[k] \in 200..299 THEN "Success" ELSE "Failure"
    /\ [][ \A k \in Ids :
              (status[k] = NoStatus /\ status'[k] \in StatusCodes) =>
                  /\ Len(results') = Len(results) + 1
                  /\ SubSeq(results', 1, Len(results)) = results
                  /\ IF status'[k] \in 200..299
                       THEN successful_requests' = successful_requests + 1
                            /\ failed_requests' = failed_requests
                       ELSE failed_requests' = failed_requests + 1
                            /\ successful_requests' = successful_requests ]_vars

C10_Witness ==
    /\ Len(tasks) = 3
    /\ status[1] = 300
    /\ status[2] = 299
    /\ status[3] = 199
    /\ successful_requests = 1
    /\ failed_requests = 2
    /\ Len(results) = 3

\* C11: the reported success rate is successful_requests / num_requests * 100
\* with the configured num_requests as denominator, whatever the number of
\* recorded durations; it is 100% only when all N requests succeeded.
C11_RateOverConfiguredN ==
    report.kind \in {"summary", "ZeroDivisionError"} =>
        /\ report.success_rate.den = num_requests
        /\ report.success_rate.num = 100 * Cardinality(Responded2xx)
        /\ (report.success_rate.num = 100 * report.success_rate.den)
              <=> (Cardinality(Responded2xx) = num_requests)

C11_Witness ==
    /\ pc = "done"
    /\ report.kind = "summary"
    /\ num_requests = 3
    /\ Len(results) = 2
    /\ successful_requests = 2
    /\ report.success_rate = [num |-> 200, den |-> 3]

\* C12: for every list length L >= 1 the indices int(L * 0.95) and
\* int(L * 0.99) are below L, so the percentile lookup never leaves the
\* sorted list and the "N/A" branch is never taken.
C12_PercentileIndexInRange ==
    /\ pc = "init" =>
          \A n \in 1..MaxLen : PercentileIndex(n, 95) < n /\ PercentileIndex(n, 99) < n
    /\ results # <<>> =>
          /\ Percentile(results, 95).kind = "value"
          /\ Percentile(results, 99).kind = "value"
    /\ report.kind = "summary" => report.p95.kind = "value" /\ report.p99.kind = "value"

C12_Witness ==
    /\ pc = "done"
    /\ report.kind = "summary"
    /\ Len(results) = 3
    /\ report.p95.kind = "value"
    /\ report.p99.kind = "value"

\* C13: for every non-empty list of non-negative durations,
\* min <= median <= max <= sum (the median is held as twice its value).
C13_MinMedianMaxSum ==
    results # <<>> =>
        /\ \A j \in 1..Len(results) : results[j] >= 0
        /\ 2 * MinTime(results) <= Median2(results)
        /\ Median2(results) <= 2 * MaxTime(results)
        /\ MaxTime(results) <= Sum(results)
        /\ report.kind = "summary" =>
              /\ 2 * report.min_time <= report.median_time2
              /\ report.median_time2 <= 2 * report.max_time
              /\ report.max_time <= report.total_time

C13_Witness ==
    /\ pc = "done"
    /\ report.kind = "summary"
    /\ results = <<1, 0>>
    /\ report.min_time = 0
    /\ report.median_time2 = 1
    /\ report.max_time = 1

AllOk == Len(tasks) = num_requests /\ \A k \in Ids : status[k] = 200

\* C14: when every request of a single batch is answered 200, the run ends
\* with N successes, 0 failures, a success rate of 100% and p95 = p99 = max;
\* for any length whose 95% index is the last index (5 among them), the 99%
\* index is the last index too, so both select the last element of the sort.
C14_AllOkPercentilesAreMax ==
    /\ PercentileIndex(5, 95) = 4 /\ PercentileIndex(5, 99) = 4
    /\ pc = "init" =>
          \A n \in 1..MaxLen : PercentileIndex(n, 95) = n - 1 => PercentileIndex(n, 99) = n - 1
    /\ (results # <<>> /\ PercentileIndex(Len(results), 95) = Len(results) - 1) =>
          /\ Percentile(results, 95) = [kind |-> "value", value |-> sorted(results)[Len(results)]]
          /\ Percentile(results, 99) = Percentile(results, 95)
          /\ Percentile(results, 95).value = MaxTime(results)
    /\ (ShowResultsCalled /\ AllOk /\ concurrency >= num_requests) =>
          /\ successful_requests = num_requests
          /\ failed_requests = 0
          /\ report.success_rate.num = 100 * report.success_rate.den
          /\ report.kind = "summary" =>
                /\ report.p95 = [kind |-> "value", value |-> report.max_time]
                /\ report.p99 = report.p95

C14_Witness ==
    /\ pc = "done"
    /\ AllOk
    /\ num_requests = 3
    /\ concurrency = 3
    /\ report.kind = "summary"
    /\ results = <<0, 1, 0>>
    /\ report.p95.value = 1

CeilDiv(a, b) == (a + b - 1) \div b

\* C16: run() hands the sequence numbers to gather in consecutive blocks, in
\* increasing order: the block being gathered is exactly the numbers of batch
\* i / C, it has C members unless it is the last (then between 1 and C), a
\* number is started only as a member of its own block, C >= N gives the
\* single block 1..N, and the loop ends after ceil(N / C) blocks.
C16_ConsecutiveBatches ==
    Len(tasks) = num_requests =>
        /\ i % concurrency = 0
        /\ \A k \in Ids : tasks[k] # "Pending" => BatchNo(k) <= i \div concurrency
        /\ \A k \in Ids : BatchNo(k) < i \div concurrency => tasks[k] \in Terminal
        /\ pc = "gather" =>
              /\ i < num_requests
              /\ batch = {k \in 1..num_requests : BatchNo(k) = i \div concurrency}
              /\ Cardinality(batch) >= 1
              /\ Cardinality(batch) <= concurrency
              /\ i + concurrency < num_requests => Cardinality(batch) = concurrency
              /\ i + concurrency >= num_requests => Cardinality(batch) = num_requests - i
              /\ concurrency >= num_requests => batch = 1..num_requests
        /\ pc # "gather" => batch = {}
        /\ AfterLoop => i = concurrency * CeilDiv(num_requests, concurrency)

C16_Witness ==
    /\ pc = "gather"
    /\ num_requests = 3
    /\ concurrency = 2
    /\ i = 2
    /\ batch = {3}
    /\ tasks[3] = "Pending"

\* every reordering of a list
Perms(s) ==
    LET n == Len(s)
        bij == {g \in [1..n -> 1..n] : \A a \in 1..n : \A b \in 1..n : g[a] = g[b] => a = b}
    IN  {[j \in 1..n |-> s[g[j]]] : g \in bij}

StatsOf(s) ==
    [ total   |-> Sum(s),
      min     |-> MinTime(s),
      max     |-> MaxTime(s),
      median2 |-> Median2(s),
      p95     |-> Percentile(s, 95),
      p99     |-> Percentile(s, 99) ]

\* C17: the summary does not depend on the order in which the requests
\* completed: when show_results is about to run, every reordering of the
\* recorded durations gives the same sum, min, max, median, p95 and p99, the
\* reported values are those of the ascending arrangement, and the counts
\* (hence the success rate) are the numbers of 2xx and of other outcomes,
\* whatever their order.
C17_OrderIndependentSummary ==
    /\ (pc = "summary" /\ results # <<>>) =>
          LET here == StatsOf(results)
          IN  \A q \in Perms(results) : StatsOf(q) = here
    /\ (AfterLoop /\ results # <<>>) =>
          /\ successful_requests = Cardinality(Responded2xx)
          /\ failed_requests = Cardinality(Ids \ Responded2xx)
    /\ report.kind = "summary" =>
          /\ report.total_time = Sum(sorted(results))
          /\ report.min_time = MinTime(sorted(results))
          /\ report.max_time = MaxTime(sorted(results))
          /\ report.median_time2 = Median2(sorted(results))
          /\ report.p95 = Percentile(sorted(results), 95)
          /\ report.p99 = Percentile(sorted(results), 99)

C17_Witness ==
    /\ pc = "done"
    /\ report.kind = "summary"
    /\ num_requests = 3
    /\ concurrency = 3
    /\ results = <<1, 0, 0>>
    /\ failed_requests >= 1

IsPrefix(s, t) == Len(s) <= Len(t) /\ SubSeq(t, 1, Len(s)) = s

\* C18: every step keeps the recorded durations as a prefix of the new list
\* and appends at most one, never decreases a counter, and increments at
\* most one counter by one.
C18_AggregateOnlyGrows ==
    [][ /\ IsPrefix(results, results')
        /\ Len(results') <= Len(results) + 1
        /\ successful_requests' >= successful_requests
        /\ failed_requests' >= failed_requests
        /\ (successful_requests' + failed_requests')
              <= successful_requests + failed_requests + 1
        /\ Len(results') = Len(results) + 1 =>
              successful_requests' + failed_requests'
                  = successful_requests + failed_requests + 1 ]_vars

C18_Witness ==
    /\ pc = "gather"
    /\ Len(results) = 2
    /\ results[1] = 1
    /\ results[2] = 0
    /\ successful_requests = 1
    /\ failed_requests = 1

\* C19: show_results does not modify results or the counters, nothing
\* modifies them once the batch loop has finished, and the summary it
\* produced is the one a second computation over the Aggregate would give.
C19_SummaryLeavesAggregate ==
    /\ [][AfterLoop => (aggregate' = aggregate /\ AfterLoop')]_vars
    /\ [](report.kind = "summary" => report = Summary)

C19_Witness ==
    /\ pc = "done"
    /\ report.kind = "summary"
    /\ results = <<1, 1, 0>>
    /\ report = Summary

\* C20: under fair scheduling run() terminates: eventually every execution
\* is terminal, the loop has run all its batches and show_results has been
\* called; after that call nothing happens again (it is called exactly once).
C20_RunTerminates ==
    /\ <>(/\ ShowResultsCalled
          /\ Len(tasks) = num_requests
          /\ \A k \in Ids : tasks[k] \in Terminal
          /\ i >= num_requests)
    /\ [][ShowResultsCalled => FALSE]_vars
    /\ [][pc' = "summary" => pc = "loop"]_vars

C20_Witness ==
    /\ pc = "done"
    /\ num_requests = 3
    /\ concurrency = 1
    /\ i = 3
    /\ \A k \in Ids : tasks[k] \in Terminal

Recording == {k \in Ids : tasks[k] = "Recording"}

\* C15: recording is atomic: at most one execution is between its append and
\* its counter increment, the only step taken from such a state is that
\* execution's increment, and whenever no execution is in between the
\* counters equal the numbers of completions (no increment is lost).
C15_RecordIsAtomic ==
    /\ [] /\ Cardinality(Recording) <= 1
          /\ Recording = {} =>
                /\ successful_requests = Cardinality(Succeeded)
                /\ failed_requests = Cardinality(Failed)
                /\ successful_requests + failed_requests = Len(results) + Cardinality(Threw)
          /\ (AfterLoop /\ method \in Supported) =>
                /\ Recording = {}
                /\ successful_requests + failed_requests = num_requests
    /\ [][ \A k \in Recording :
              /\ tasks'[k] \in {"Success", "Failure"}
              /\ results' = results
              /\ successful_requests' + failed_requests'
                    = successful_requests + failed_requests + 1
              /\ \A j \in Ids \ {k} : tasks'[j] = tasks[j] ]_vars

C15_Witness ==
    /\ Len(tasks) = 3
    /\ concurrency = 3
    /\ tasks[1] = "InFlight"
    /\ tasks[2] = "Recording"
    /\ tasks[3] = "Success"
    /\ Len(results) = 2
    /\ successful_requests + failed_requests = 1
====
